---- MODULE Spec2Model ----
(***************************************************************************)
(* Model of the SSH client session layer of src/src/client.rs: connect,    *)
(* the ClientHandle trust bridge (auth_banner / check_server_key), the     *)
(* authentication operations, exec and disconnect.  The transport engine   *)
(* (russh) is the environment: it delivers banner and host-key events,     *)
(* answers authentication requests and produces channel messages.          *)
(***************************************************************************)
EXTENDS Integers, Sequences, FiniteSets, TLC

\* ------------------------------------------------------------- bounds
MaxEvents == 3      \* banner / host-key events the transport delivers per connection
MaxOps == 3         \* caller operations issued on one Session
MaxMsgs == 3        \* channel messages delivered to one exec before end-of-stream
MaxFnCalls == 3     \* calls of the free functions (known-hosts ledger, key generation)

\* Sample values: server keys, data payloads, exit statuses.
Keys == {"keyA", "keyB"}
Payloads == {<<1>>, <<2, 1>>}
Statuses == {0, 1, 2}
\* Hosts, port arguments (u32; 65558 = 65536 + 22) and RSA bit lengths.
Hosts == {"host", "other"}
Ports == {22, 2222, 65558}
Bits == {0, 1, 2048, 4096}

\* ------------------------------------------------------------- state
VARIABLES
  config,      \* Config handed to connect: which handlers are registered
  known_hosts, \* the known-hosts ledger: entries [host, port, key]
  learned,     \* the (host, port, key) arguments of the learn_known_hosts calls that returned Ok
  fnCall,      \* the last call of a free function: its arguments and what it returned
  connectPc,   \* position of connect: "start", "handshake", "ok", "err"
  self,        \* ClientHandle: its two optional handler slots, and whether it still exists
  hkPc,        \* position inside check_server_key: "idle", "call", "promise"
  pending,     \* the host-key check in progress: key, handler return
  nEvents,     \* events delivered by the transport so far
  log,         \* handler invocations, in order: [kind: "banner" | "check", key]
  decisions,   \* one record per finished host-key check, in order
  agent,       \* "none", "ok", "err": result of AgentClient::connect_env
  tstate,      \* transport state behind the Session handle
  opPc,        \* position of the caller operation in flight: "idle", "draining"
  nOps,        \* caller operations issued
  output,      \* exec: accumulated output (local of exec)
  status,      \* exec: recorded status (local of exec)
  delivered,   \* exec: channel messages received so far by the drain in progress
  lastCall,    \* the last caller operation: what it was, what it saw, what it returned
  authTrue,    \* some authenticate_* call has returned true
  disconnected \* some disconnect call has returned Ok

vars == <<config, known_hosts, learned, fnCall, connectPc, self, hkPc, pending, nEvents, log, decisions, agent,
          tstate, opPc, nOps, output, status, delivered, lastCall, authTrue,
          disconnected>>

freeVars == <<known_hosts, learned, fnCall>>
bridgeVars == <<self, hkPc, pending, log, decisions>>
sessionVars == <<opPc, nOps, output, status, delivered, lastCall, authTrue,
                 disconnected>>
drainVars == <<opPc, output, status, delivered>>

NoPending == [key |-> "none", ret |-> "none"]
NoFnCall == [op |-> "none", host |-> "none", port |-> 0, key |-> "none", bits |-> 0,
             kind |-> "none", value |-> FALSE, n |-> 0]

\* The record of one caller operation: op and kind ("ok", "err", "pending"), the
\* boolean of an authenticate_*, the ExecOutput of an exec, the messages its channel
\* delivered, the authentication requests sent and channels opened by the call,
\* how its key argument resolved (authenticate_key_pair), and what was true of the
\* Session when the call was made (afterRefusal: the call before it was an
\* authenticate_* that returned false).
Refused(c) ==
  /\ c.op \in {"authenticate_password", "authenticate_key_pair"}
  /\ c.kind = "ok"
  /\ ~c.value
Call(op, kind, value, st, out, msgs, requests, channels) ==
  [op |-> op, kind |-> kind, value |-> value, status |-> st, output |-> out,
   msgs |-> msgs, requests |-> requests, channels |-> channels, resolution |-> "none",
   afterDisconnect |-> disconnected, authed |-> authTrue, tstateBefore |-> tstate,
   afterRefusal |-> Refused(lastCall)]
NoCall ==
  [op |-> "none", kind |-> "none", value |-> FALSE, status |-> 0, output |-> <<>>,
   msgs |-> <<>>, requests |-> 0, channels |-> 0, resolution |-> "none",
   afterDisconnect |-> FALSE, authed |-> FALSE, tstateBefore |-> "none",
   afterRefusal |-> FALSE]

\* ClientHandle { check_server_key, auth_banner } as built by connect from the Config.
ClientHandle(cfg) ==
  [check_server_key |-> cfg.check_server_key,
   auth_banner |-> cfg.auth_banner,
   alive |-> TRUE]

Init ==
  /\ config \in [check_server_key : BOOLEAN, auth_banner : BOOLEAN]
  /\ known_hosts \in {{}, {[host |-> "host", port |-> 22, key |-> "keyA"]}}
  /\ learned = {}
  /\ fnCall = NoFnCall
  /\ connectPc = "start"
  /\ self = [check_server_key |-> FALSE, auth_banner |-> FALSE, alive |-> FALSE]
  /\ hkPc = "idle"
  /\ pending = NoPending
  /\ nEvents = 0
  /\ log = <<>>
  /\ decisions = <<>>
  /\ agent = "none"
  /\ tstate = "none"
  /\ opPc = "idle"
  /\ nOps = 0
  /\ output = <<>>
  /\ status = 0
  /\ delivered = <<>>
  /\ lastCall = NoCall
  /\ authTrue = FALSE
  /\ disconnected = FALSE

\* ------------------------------------------------------------- connect
\* connect, up to the start of client::connect: the handlers are taken out of the
\* Config, the agent connection is attempted, and only then the transport is opened.
connect_agent_failure_ignored ==
  /\ connectPc = "start"
  /\ \E ok \in BOOLEAN :
       /\ agent' = IF ok THEN "ok" ELSE "err"
       /\ connectPc' = "handshake"
       /\ self' = ClientHandle(config)
       /\ tstate' = "Connecting"
  /\ UNCHANGED <<config, freeVars, hkPc, pending, nEvents, log, decisions>>
  /\ UNCHANGED sessionVars

connect_agent ==
  /\ connectPc = "start"
  /\ \E ok \in BOOLEAN :
       IF ok
       THEN /\ agent' = "ok"
            /\ connectPc' = "handshake"
            /\ self' = ClientHandle(config)
            /\ tstate' = "Connecting"
       ELSE /\ agent' = "err"
            /\ connectPc' = "err"
            /\ UNCHANGED <<self, tstate>>
  /\ UNCHANGED <<config, freeVars, hkPc, pending, nEvents, log, decisions>>
  /\ UNCHANGED sessionVars

\* The transport may call a handler method only while it holds the ClientHandle
\* (the methods take `self` by value and give it back in Ok) and the connection lives.
TransportLive == tstate \in {"Connecting", "AwaitingAuth", "Authenticated"}

CanDeliver ==
  /\ TransportLive
  /\ self.alive
  /\ hkPc = "idle"
  /\ nEvents < MaxEvents

\* ------------------------------------------------------------- trust bridge
\* self.auth_banner.take() / self.check_server_key.take(): the slot is left empty.
take_auth_banner(h) == [h EXCEPT !.auth_banner = FALSE]

keep_check_server_key(h) == h
take_check_server_key(h) == [h EXCEPT !.check_server_key = FALSE]

\* ClientHandle::auth_banner: take() the slot; call the handler if it was set.
auth_banner ==
  /\ CanDeliver
  /\ nEvents' = nEvents + 1
  /\ IF self.auth_banner
     THEN /\ log' = Append(log, [kind |-> "banner", key |-> "none"])
          /\ self' = take_auth_banner(self)
     ELSE UNCHANGED <<log, self>>
  /\ UNCHANGED <<config, freeVars, connectPc, hkPc, pending, decisions, agent, tstate>>
  /\ UNCHANGED sessionVars

\* What the transport does with the answer of a host-key check: an accepted key lets
\* the connection go on; a rejected key or a handler error aborts it, and
\* client::connect(...).await? makes connect return the error.
TransportAfter(res) ==
  IF res = "accept"
  THEN UNCHANGED <<connectPc, tstate>>
  ELSE /\ tstate' = "Failed"
       /\ connectPc' = IF connectPc = "handshake" THEN "err" ELSE connectPc

Finish(key, res, invoked, ret, resolved) ==
  /\ decisions' = Append(decisions,
        [key |-> key, res |-> res, invoked |-> invoked, ret |-> ret,
         resolved |-> resolved])
  /\ TransportAfter(res)

\* The head of check_server_key: if the banner slot is still set, drop it.
keep_banner_slot(h) == h
drop_auth_banner(h) == IF h.auth_banner THEN take_auth_banner(h) ELSE h

\* The else arm: no handler in the slot, Ok((self, true)).
KnownHostsEntry(key) == [host |-> "host", port |-> 22, key |-> key]
DefaultFromKnownHosts(key) ==
  IF KnownHostsEntry(key) \in known_hosts THEN "accept" ELSE "reject"
DefaultDecision(key) == "accept"

\* check_server_key up to its first suspension: the banner slot is dropped; with a
\* handler in the slot the handler is called (call_async) and the method waits for its
\* return value; with an empty slot the method answers at once.
check_server_key ==
  /\ CanDeliver
  /\ nEvents' = nEvents + 1
  /\ \E key \in Keys :
       IF self.check_server_key
       THEN /\ self' = drop_auth_banner(self)
            /\ log' = Append(log, [kind |-> "check", key |-> key])
            /\ hkPc' = "call"
            /\ pending' = [key |-> key, ret |-> "none"]
            /\ UNCHANGED <<decisions, connectPc, tstate>>
       ELSE /\ self' = drop_auth_banner(self)
            /\ Finish(key, DefaultDecision(key), FALSE, "none", "none")
            /\ UNCHANGED <<log, hkPc, pending>>
  /\ UNCHANGED <<config, freeVars, agent>>
  /\ UNCHANGED sessionVars

\* What the handler's call can give back: a boolean, a deferred boolean (Promise),
\* anything else (UnknownReturnValue), or a failed call.
HandlerReturns == {"true", "false", "promise", "unknown", "error"}

\* call_async(...).await? and the match on its value: an error leaves through `?`,
\* a boolean is the answer, a Promise is awaited, anything else is false.
MatchResultUnknownAccepts(ret) ==
  CASE ret = "error" -> "error"
    [] ret = "true" -> "accept"
    [] ret = "false" -> "reject"
    [] ret = "promise" -> "await"
    [] ret = "unknown" -> "accept"
MatchResultErrorAccepts(ret) ==
  CASE ret = "error" -> "accept"
    [] ret = "true" -> "accept"
    [] ret = "false" -> "reject"
    [] ret = "promise" -> "await"
    [] ret = "unknown" -> "reject"
MatchResult(ret) ==
  CASE ret = "error" -> "error"
    [] ret = "true" -> "accept"
    [] ret = "false" -> "reject"
    [] ret = "promise" -> "await"
    [] ret = "unknown" -> "reject"

\* The handler's call returns.  On an error the method is left before the slot is
\* taken, and the ClientHandle, moved into the method, is gone with it; otherwise
\* the slot is taken and the value matched.
check_server_key_returned ==
  /\ hkPc = "call"
  /\ \E ret \in HandlerReturns :
       LET res == MatchResult(ret) IN
       CASE res = "error" ->
              /\ self' = [self EXCEPT !.alive = FALSE]
              /\ hkPc' = "idle"
              /\ pending' = NoPending
              /\ Finish(pending.key, res, TRUE, ret, "none")
         [] res = "await" ->
              /\ self' = take_check_server_key(self)
              /\ hkPc' = "promise"
              /\ pending' = [pending EXCEPT !.ret = ret]
              /\ UNCHANGED <<decisions, connectPc, tstate>>
         [] OTHER ->
              /\ self' = take_check_server_key(self)
              /\ hkPc' = "idle"
              /\ pending' = NoPending
              /\ Finish(pending.key, res, TRUE, ret, "none")
  /\ UNCHANGED <<config, freeVars, nEvents, log, agent>>
  /\ UNCHANGED sessionVars

\* How a deferred result can end: with a boolean, or failed.
PromiseOutcomes == {"true", "false", "error"}

\* b.await?: the boolean is the answer; a failure leaves through `?`.
AwaitPromiseNegated(out) ==
  CASE out = "error" -> "error" [] out = "true" -> "reject" [] out = "false" -> "accept"
AwaitPromise(out) ==
  CASE out = "error" -> "error" [] out = "true" -> "accept" [] out = "false" -> "reject"

check_server_key_resolved ==
  /\ hkPc = "promise"
  /\ \E out \in PromiseOutcomes :
       LET res == AwaitPromise(out) IN
       /\ hkPc' = "idle"
       /\ pending' = NoPending
       /\ self' = IF res = "error" THEN [self EXCEPT !.alive = FALSE] ELSE self
       /\ Finish(pending.key, res, TRUE, pending.ret, out)
  /\ UNCHANGED <<config, freeVars, nEvents, log, agent>>
  /\ UNCHANGED sessionVars

\* client::connect(...).await? ends: Ok(handle) once the key exchange, which includes
\* an accepted host-key check, is over; Err on a network or key-exchange failure.
LastAccepted ==
  /\ Len(decisions) > 0
  /\ decisions[Len(decisions)].res = "accept"

connect_done ==
  /\ connectPc = "handshake"
  /\ hkPc = "idle"
  /\ \/ /\ LastAccepted
        /\ connectPc' = "ok"
        /\ tstate' = "AwaitingAuth"
     \/ /\ connectPc' = "err"
        /\ tstate' = "Failed"
  /\ UNCHANGED <<config, freeVars, nEvents, agent>>
  /\ UNCHANGED bridgeVars
  /\ UNCHANGED sessionVars

\* ------------------------------------------------------------- session
\* Client::is_closed: the handle's own liveness flag.
is_closed_negated == tstate \notin {"Closed", "Failed"}
is_closed == tstate \in {"Closed", "Failed"}

\* The caller issues one operation at a time on a Session.
CanCall ==
  /\ connectPc = "ok"
  /\ opPc = "idle"
  /\ nOps < MaxOps

\* The transport loses the connection; the Session notices at its next use.
connection_lost ==
  /\ connectPc = "ok"
  /\ TransportLive
  /\ tstate' = "Closed"
  /\ UNCHANGED <<config, freeVars, connectPc, nEvents, agent>>
  /\ UNCHANGED bridgeVars
  /\ UNCHANGED sessionVars

\* One authentication request on the handle: over a live connection the server
\* answers accept or refuse; over a dead one the request is a transport error.
AuthAnswers == IF TransportLive THEN {"true", "false"} ELSE {"err"}

\* What authenticate_* hands back for an answer (into_error keeps Ok(bool) and maps Err).
AuthResultRefusalAsErr(op, ans) ==
  Call(op, IF ans = "true" THEN "ok" ELSE "err", ans = "true", 0, <<>>, <<>>, 1, 0)
AuthResult(op, ans) ==
  Call(op, IF ans = "err" THEN "err" ELSE "ok", ans = "true", 0, <<>>, <<>>, 1, 0)

Authenticate(op, resolution) ==
  \E ans \in AuthAnswers :
    /\ lastCall' = [AuthResult(op, ans) EXCEPT !.resolution = resolution]
    /\ authTrue' = (authTrue \/ ans = "true")
    /\ tstate' = IF ans = "true" THEN "Authenticated" ELSE tstate

\* Client::authenticate_password: one request, its result handed back.
authenticate_password ==
  /\ CanCall
  /\ nOps' = nOps + 1
  /\ Authenticate("authenticate_password", "none")
  /\ UNCHANGED <<config, freeVars, connectPc, nEvents, agent, disconnected>>
  /\ UNCHANGED bridgeVars
  /\ UNCHANGED drainVars

\* The three shapes of the key argument and whether the key could be loaded:
\* a path (load_secret_key), a KeyPair (cloned), nothing (home_dir, then load_secret_key).
KeyArgs == {"path", "keypair", "default"}
Resolutions(arg) ==
  CASE arg = "path" -> {"ok", "load_failed"}
    [] arg = "keypair" -> {"ok"}
    [] arg = "default" -> {"ok", "no_home", "load_failed"}

\* What authenticate_key_pair returns when the key could not be resolved:
\* .map_err(..)? / .ok_or_else(..)?, an error.
ResolutionFailureAsFalse(r) ==
  [Call("authenticate_key_pair", "ok", FALSE, 0, <<>>, <<>>, 0, 0) EXCEPT !.resolution = r]
ResolutionFailure(r) ==
  [Call("authenticate_key_pair", "err", FALSE, 0, <<>>, <<>>, 0, 0) EXCEPT !.resolution = r]

\* Client::authenticate_key_pair: resolve the key (an error leaves through `?`
\* before anything is sent), then one publickey request.
authenticate_key_pair ==
  /\ CanCall
  /\ nOps' = nOps + 1
  /\ \E arg \in KeyArgs :
       \E r \in Resolutions(arg) :
         IF r # "ok"
         THEN /\ lastCall' = ResolutionFailure(r)
              /\ UNCHANGED <<authTrue, tstate>>
         ELSE Authenticate("authenticate_key_pair", r)
  /\ UNCHANGED <<config, freeVars, connectPc, nEvents, agent, disconnected>>
  /\ UNCHANGED bridgeVars
  /\ UNCHANGED drainVars

\* Channel messages: data with a payload, an exit status, anything else.
Msgs ==
  {[type |-> "Data", data |-> d, exit_status |-> 0] : d \in Payloads}
  \cup {[type |-> "ExitStatus", data |-> <<>>, exit_status |-> v] : v \in Statuses}
  \cup {[type |-> "Other", data |-> <<>>, exit_status |-> 0]}

\* handle.channel_open_session(): the transport opens session channels only on an
\* authenticated, live connection.
ChannelOpenOk == tstate = "Authenticated"

\* Whether exec goes on after channel_open_session: `?` returns on an error.
ProceedIgnoringOpenError(opened) == TRUE
Proceed(opened) == opened

\* Client::exec up to the drain loop: open a channel, request the command
\* (channel.exec(true, command), which may fail), start with no output and status 0.
exec ==
  /\ CanCall
  /\ nOps' = nOps + 1
  /\ IF ~Proceed(ChannelOpenOk)
     THEN /\ lastCall' = Call("exec", "err", FALSE, 0, <<>>, <<>>, 0, 0)
          /\ UNCHANGED drainVars
     ELSE \E requested \in BOOLEAN :
            IF ~requested
            THEN /\ lastCall' = Call("exec", "err", FALSE, 0, <<>>, <<>>, 0, 1)
                 /\ UNCHANGED drainVars
            ELSE /\ lastCall' = Call("exec", "pending", FALSE, 0, <<>>, <<>>, 0, 1)
                 /\ opPc' = "draining"
                 /\ output' = <<>>
                 /\ status' = 0
                 /\ delivered' = <<>>
  /\ UNCHANGED <<config, freeVars, connectPc, nEvents, agent, tstate, authTrue, disconnected>>
  /\ UNCHANGED bridgeVars

\* output.write_all(data)
write_all_replace(out, data) == data
write_all(out, data) == out \o data

\* status = exit_status
record_status_first(st, exit_status) == IF st = 0 THEN exit_status ELSE st
record_status(st, exit_status) == exit_status

\* A drain loop that returns as soon as the exit status arrives.
exec_wait_msg_break_on_status ==
  /\ opPc = "draining"
  /\ Len(delivered) < MaxMsgs
  /\ \E msg \in Msgs :
       IF msg.type = "ExitStatus"
       THEN /\ opPc' = "idle"
            /\ lastCall' = [lastCall EXCEPT !.kind = "ok", !.status = msg.exit_status,
                                            !.output = output,
                                            !.msgs = Append(delivered, msg)]
            /\ output' = <<>>
            /\ status' = 0
            /\ delivered' = <<>>
       ELSE /\ delivered' = Append(delivered, msg)
            /\ output' = IF msg.type = "Data" THEN write_all(output, msg.data) ELSE output
            /\ UNCHANGED <<status, opPc, lastCall>>
  /\ UNCHANGED <<config, freeVars, connectPc, nEvents, agent, tstate>>
  /\ UNCHANGED <<nOps, authTrue, disconnected>>
  /\ UNCHANGED bridgeVars

\* One turn of the drain loop: channel.wait() gave Some(msg).
exec_wait_msg ==
  /\ opPc = "draining"
  /\ Len(delivered) < MaxMsgs
  /\ \E msg \in Msgs :
       /\ delivered' = Append(delivered, msg)
       /\ CASE msg.type = "Data" ->
                 /\ output' = write_all(output, msg.data)
                 /\ UNCHANGED status
            [] msg.type = "ExitStatus" ->
                 /\ status' = record_status(status, msg.exit_status)
                 /\ UNCHANGED output
            [] OTHER -> UNCHANGED <<output, status>>
  /\ UNCHANGED <<config, freeVars, connectPc, nEvents, agent, tstate>>
  /\ UNCHANGED <<opPc, nOps, lastCall, authTrue, disconnected>>
  /\ UNCHANGED bridgeVars

\* channel.wait() gave None: the loop ends and exec returns Ok(ExecOutput); its
\* locals and the channel are gone.
exec_wait_none ==
  /\ opPc = "draining"
  /\ opPc' = "idle"
  /\ lastCall' = [lastCall EXCEPT !.kind = "ok", !.status = status,
                                  !.output = output, !.msgs = delivered]
  /\ output' = <<>>
  /\ status' = 0
  /\ delivered' = <<>>
  /\ UNCHANGED <<config, freeVars, connectPc, nEvents, agent, tstate>>
  /\ UNCHANGED <<nOps, authTrue, disconnected>>
  /\ UNCHANGED bridgeVars

\* Client::disconnect: the disconnect request on the handle closes a live
\* connection; on a closed one it is the error mapped to "Disconnect failed".
disconnect ==
  /\ CanCall
  /\ nOps' = nOps + 1
  /\ IF TransportLive
     THEN /\ lastCall' = Call("disconnect", "ok", FALSE, 0, <<>>, <<>>, 0, 0)
          /\ tstate' = "Closed"
          /\ disconnected' = TRUE
     ELSE /\ lastCall' = Call("disconnect", "err", FALSE, 0, <<>>, <<>>, 0, 0)
          /\ UNCHANGED <<tstate, disconnected>>
  /\ UNCHANGED <<config, freeVars, connectPc, nEvents, agent, authTrue>>
  /\ UNCHANGED bridgeVars
  /\ UNCHANGED drainVars

\* ------------------------------------------------------------- free functions
\* `port as u16`: the u32 argument is cut to its low 16 bits.
U16 == 65536
as_u16(port) == port % U16

\* keys::check_known_hosts(host, port, key): whether the ledger records that key
\* for that host and port.
LedgerHas(host, port, key) == [host |-> host, port |-> port, key |-> key] \in known_hosts

\* keys::known_hosts::learn_known_hosts(host, port, key): the entry is recorded.
LedgerAdd(host, port, key) == known_hosts \cup {[host |-> host, port |-> port, key |-> key]}

FnCall(op, host, port, key, bits, kind, value) ==
  [op |-> op, host |-> host, port |-> port, key |-> key, bits |-> bits,
   kind |-> kind, value |-> value, n |-> fnCall.n + 1]

CanCallFn == fnCall.n < MaxFnCalls

\* check_known_hosts(host, port, pubkey, path): the library's answer for the cut port.
check_known_hosts ==
  /\ CanCallFn
  /\ \E host \in Hosts, port \in Ports, key \in Keys :
       fnCall' = FnCall("check", host, port, key, 0, "ok",
                        LedgerHas(host, as_u16(port), key))
  /\ UNCHANGED <<config, known_hosts, learned, connectPc, nEvents, agent, tstate>>
  /\ UNCHANGED bridgeVars
  /\ UNCHANGED sessionVars

\* learn_known_hosts(host, port, pubkey, path): the library records the entry for
\* the cut port, or fails to write the file.
learn_known_hosts ==
  /\ CanCallFn
  /\ \E host \in Hosts, port \in Ports, key \in Keys, written \in BOOLEAN :
       IF written
       THEN /\ known_hosts' = LedgerAdd(host, as_u16(port), key)
            /\ learned' = learned \cup {[host |-> host, port |-> port, key |-> key]}
            /\ fnCall' = FnCall("learn", host, port, key, 0, "ok", FALSE)
       ELSE /\ fnCall' = FnCall("learn", host, port, key, 0, "err", FALSE)
            /\ UNCHANGED <<known_hosts, learned>>
  /\ UNCHANGED <<config, connectPc, nEvents, agent, tstate>>
  /\ UNCHANGED bridgeVars
  /\ UNCHANGED sessionVars

\* The match on `bits` in generate_rsa: every arm is Algorithm::Rsa { hash: None },
\* which carries no key size.
rsa_algorithm(bits) == "rsa"

\* PrivateKey::random(rng, algorithm): a key of the library's own size for the
\* algorithm, or a generation error; the outcome cannot depend on `bits`.
RandomKey(algorithm) == {[kind |-> "ok", size |-> "library-default"],
                         [kind |-> "err", size |-> "none"]}

\* KeyPair::generate_rsa(bits, _signature_hash)
generate_rsa ==
  /\ CanCallFn
  /\ \E bits \in Bits :
       \E k \in RandomKey(rsa_algorithm(bits)) :
         fnCall' = FnCall("generate_rsa", "none", 0, k.size, bits, k.kind, FALSE)
  /\ UNCHANGED <<config, known_hosts, learned, connectPc, nEvents, agent, tstate>>
  /\ UNCHANGED bridgeVars
  /\ UNCHANGED sessionVars

\* ------------------------------------------------------------- specifications
\* The whole program from the call of connect.  Channels give end-of-stream at
\* once here; the message streams of exec are explored under SpecSession.
Next ==
  \/ connect_agent
  \/ auth_banner
  \/ check_server_key
  \/ check_server_key_returned
  \/ check_server_key_resolved
  \/ connect_done
  \/ connection_lost
  \/ authenticate_password
  \/ authenticate_key_pair
  \/ exec
  \/ exec_wait_none
  \/ disconnect

Spec == Init /\ [][Next]_vars

\* A Session as connect hands it over (Client::new), no handler registered, the
\* server key accepted by the default policy: the operations of the Session with
\* every message stream of at most MaxMsgs messages.
InitSession ==
  /\ config = [check_server_key |-> FALSE, auth_banner |-> FALSE]
  /\ known_hosts = {}
  /\ learned = {}
  /\ fnCall = NoFnCall
  /\ connectPc = "ok"
  /\ self = [check_server_key |-> FALSE, auth_banner |-> FALSE, alive |-> TRUE]
  /\ hkPc = "idle"
  /\ pending = NoPending
  /\ nEvents = 1
  /\ log = <<>>
  /\ decisions = <<[key |-> "keyA", res |-> "accept", invoked |-> FALSE, ret |-> "none",
                    resolved |-> "none"]>>
  /\ agent = "ok"
  /\ tstate = "AwaitingAuth"
  /\ opPc = "idle"
  /\ nOps = 0
  /\ output = <<>>
  /\ status = 0
  /\ delivered = <<>>
  /\ lastCall = NoCall
  /\ authTrue = FALSE
  /\ disconnected = FALSE

NextSession ==
  \/ connection_lost
  \/ authenticate_password
  \/ authenticate_key_pair
  \/ exec
  \/ exec_wait_msg
  \/ exec_wait_none
  \/ disconnect

SpecSession == InitSession /\ [][NextSession]_vars

\* The same session under the assumption that a channel's message stream ends:
\* channel.wait() eventually gives None to a draining exec.
SpecSessionFair == SpecSession /\ WF_vars(exec_wait_none)

\* The free functions of keypair.rs, from an empty ledger, before any connect.
InitKeys ==
  /\ Init
  /\ known_hosts = {}

NextKeys ==
  \/ check_known_hosts
  \/ learn_known_hosts
  \/ generate_rsa

SpecKeys == InitKeys /\ [][NextKeys]_vars

\* ------------------------------------------------------------- properties
Invocations(kind) == Cardinality({i \in DOMAIN log : log[i].kind = kind})

\* C1: whenever the registered host-key handler returned an unrecognized value
\* (neither a boolean nor a deferred boolean), the decision of that check is reject
\* and connect has returned an error: no Session was or will be yielded.
C1_UnknownRejects ==
  \A i \in DOMAIN decisions :
    decisions[i].ret = "unknown" =>
      /\ decisions[i].res = "reject"
      /\ connectPc = "err"
      /\ tstate = "Failed"

C1_Witness ==
  /\ config.check_server_key
  /\ \E i \in DOMAIN decisions : decisions[i].invoked /\ decisions[i].ret = "unknown"

\* C2: the banner handler is invoked only while no host-key decision has been
\* requested on the connection, so in the order of handler invocations no banner
\* invocation follows a host-key handler invocation.
BannerInvoked ==
  /\ Len(log') = Len(log) + 1
  /\ log'[Len(log')].kind = "banner"

NoDecisionRequested ==
  /\ decisions = <<>>
  /\ hkPc = "idle"
  /\ Invocations("check") = 0

C2_BannerBeforeHostKey ==
  /\ [](\A i, j \in DOMAIN log :
          (log[i].kind = "check" /\ log[j].kind = "banner") => j < i)
  /\ [][BannerInvoked => NoDecisionRequested]_vars

C2_Witness ==
  /\ Len(log) = 2
  /\ log[1].kind = "banner"
  /\ log[2].kind = "check"
  /\ nEvents = MaxEvents
  /\ hkPc = "idle"

\* C3: on one connection the banner handler is invoked at most once and the
\* host-key handler is invoked at most once, however many banner and host-key
\* events the transport delivers.
C3_AtMostOnce ==
  /\ Invocations("banner") <= 1
  /\ Invocations("check") <= 1

C3_Witness ==
  /\ Invocations("banner") = 1
  /\ Invocations("check") = 1
  /\ Len(decisions) >= 2
  /\ nEvents = MaxEvents

C5_DeferredSuspends ==
  /\ hkPc # "idle" => (connectPc = "handshake" /\ tstate = "Connecting")
  /\ \A i \in DOMAIN decisions :
       decisions[i].ret = "promise" =>
         /\ decisions[i].resolved # "none"
         /\ decisions[i].resolved = "true" => decisions[i].res = "accept"
         /\ decisions[i].resolved = "false" => decisions[i].res = "reject"

C5_Witness ==
  /\ connectPc = "ok"
  /\ \E i \in DOMAIN decisions :
       decisions[i].ret = "promise" /\ decisions[i].resolved = "true"

\* C6: when the handler's call fails or the deferred result it returned fails, the
\* check ends with the error (the key is not accepted), connect has returned an
\* error and there is no Session.
C6_HandlerFailureAborts ==
  \A i \in DOMAIN decisions :
    (decisions[i].ret = "error" \/ decisions[i].resolved = "error") =>
      /\ decisions[i].res = "error"
      /\ i = Len(decisions)
      /\ connectPc = "err"
      /\ tstate = "Failed"
      /\ ~self.alive

C6_Witness ==
  \E i \in DOMAIN decisions :
    decisions[i].ret = "promise" /\ decisions[i].resolved = "error"

\* C7: with no host-key handler registered at connect, every host-key check is
\* answered accept and no handler is invoked, whatever the known-hosts ledger holds
\* (also for a key the ledger has no entry for).
C7_DefaultAccept ==
  ~config.check_server_key =>
    /\ Invocations("check") = 0
    /\ hkPc = "idle"
    /\ \A i \in DOMAIN decisions :
         decisions[i].res = "accept" /\ ~decisions[i].invoked

C7_Witness ==
  /\ ~config.check_server_key
  /\ Len(decisions) >= 2
  /\ \E i \in DOMAIN decisions :
       /\ decisions[i].res = "accept"
       /\ KnownHostsEntry(decisions[i].key) \notin known_hosts

RECURSIVE ConcatData(_)
ConcatData(ms) ==
  IF ms = <<>> THEN <<>>
  ELSE (IF Head(ms).type = "Data" THEN Head(ms).data ELSE <<>>) \o ConcatData(Tail(ms))

\* C9: the output exec returns is the concatenation, in arrival order, of the
\* payloads of the data messages its channel delivered before end-of-stream.
C9_OutputIsConcatenation ==
  /\ opPc = "draining" => output = ConcatData(delivered)
  /\ (lastCall.op = "exec" /\ lastCall.kind = "ok") =>
       lastCall.output = ConcatData(lastCall.msgs)

C9_Witness ==
  /\ lastCall.op = "exec"
  /\ lastCall.kind = "ok"
  /\ Len(lastCall.msgs) = MaxMsgs
  /\ lastCall.msgs[1].type = "Data"
  /\ lastCall.msgs[2].type # "Data"
  /\ lastCall.msgs[MaxMsgs].type = "Data"
  /\ lastCall.msgs[1].data # lastCall.msgs[MaxMsgs].data

\* The value of the last exit-status message of a stream, 0 if there is none.
RECURSIVE LastExitStatus(_)
LastExitStatus(ms) ==
  IF ms = <<>> THEN 0
  ELSE IF ms[Len(ms)].type = "ExitStatus" THEN ms[Len(ms)].exit_status
  ELSE LastExitStatus(SubSeq(ms, 1, Len(ms) - 1))

\* C10: the status exec returns is the value of the last exit-status message its
\* channel delivered before end-of-stream, and 0 if it delivered none.
C10_StatusIsLastExitStatus ==
  (lastCall.op = "exec" /\ lastCall.kind = "ok") =>
    lastCall.status = LastExitStatus(lastCall.msgs)

C10_Witness ==
  /\ lastCall.op = "exec"
  /\ lastCall.kind = "ok"
  /\ Len(lastCall.msgs) = MaxMsgs
  /\ lastCall.msgs[1].type = "ExitStatus"
  /\ lastCall.msgs[2].type = "ExitStatus"
  /\ lastCall.msgs[1].exit_status # 0
  /\ lastCall.msgs[2].exit_status # lastCall.msgs[1].exit_status
  /\ lastCall.msgs[MaxMsgs].type = "Data"

\* A step in which the caller makes the call `op` (every call counts in nOps).
Calls(op) == nOps' = nOps + 1 /\ lastCall'.op = op

\* C11: an authenticate_password call sends exactly one authentication request;
\* a refusal by the server is returned as Ok(false) and leaves the Session as it
\* was (AwaitingAuth stays AwaitingAuth, not closed); the call returns an error
\* only when the transport is down.  (That a later call can still return true is
\* the reachability of C11_Witness.)
C11_PasswordOneAttempt ==
  [][Calls("authenticate_password") =>
       /\ lastCall'.requests = 1
       /\ (lastCall'.kind = "err") = ~TransportLive
       /\ TransportLive => lastCall'.kind = "ok"
       /\ (lastCall'.kind = "ok" /\ ~lastCall'.value) =>
            (tstate' = tstate /\ authTrue' = authTrue /\ ~is_closed')
       /\ (lastCall'.kind = "ok" /\ lastCall'.value) => tstate' = "Authenticated"]_vars

C11_Witness ==
  /\ lastCall.op = "authenticate_password"
  /\ lastCall.kind = "ok"
  /\ lastCall.value
  /\ lastCall.afterRefusal
  /\ lastCall.tstateBefore = "AwaitingAuth"
  /\ tstate = "Authenticated"

\* C12: an authenticate_key_pair call whose key cannot be resolved (no home
\* directory, key file unreadable or undecodable) returns an error, never a
\* boolean, sends no authentication request and leaves the authentication state
\* of the Session unchanged; when the key resolves, one request is sent and over
\* a live transport the call returns the server's boolean.
C12_ResolutionFailureIsError ==
  [][Calls("authenticate_key_pair") =>
       /\ lastCall'.resolution # "ok" =>
            /\ lastCall'.kind = "err"
            /\ lastCall'.requests = 0
            /\ tstate' = tstate
            /\ authTrue' = authTrue
       /\ lastCall'.resolution = "ok" =>
            /\ lastCall'.requests = 1
            /\ TransportLive => lastCall'.kind = "ok"
            /\ (lastCall'.kind = "ok" /\ lastCall'.value) => tstate' = "Authenticated"
            /\ (lastCall'.kind = "ok" /\ ~lastCall'.value) => tstate' = tstate]_vars

C12_Witness ==
  /\ lastCall.op = "authenticate_key_pair"
  /\ lastCall.resolution = "no_home"
  /\ lastCall.kind = "err"
  /\ lastCall.tstateBefore = "AwaitingAuth"
  /\ tstate = "AwaitingAuth"

\* C13: from a ledger with no entry for the host, after one learn(host, p, key)
\* a check(host, q, key) returns true exactly when p = q, and a check for a
\* (host, port) that was never learned returns false, not an error.
C13_CheckAfterLearn ==
  fnCall.op = "check" =>
    /\ fnCall.kind = "ok"
    /\ \A e \in learned :
         (learned = {e} /\ e.host = fnCall.host /\ e.key = fnCall.key) =>
           (fnCall.value = (e.port = fnCall.port))
    /\ (\A e \in learned : ~(e.host = fnCall.host /\ e.port = fnCall.port)) =>
         ~fnCall.value

\* C15: generate_rsa with a degenerate bit length (0 or 1) returns a generation
\* error; it does not succeed with a key of a size that was not asked for.
C15_DegenerateBitsFail ==
  (fnCall.op = "generate_rsa" /\ fnCall.bits \in {0, 1}) => fnCall.kind = "err"

\* C16: with a host-key handler registered at connect, a key is accepted only if
\* the handler was invoked for that check with that key and answered true
\* (directly or through its resolved deferred result).
C16_AcceptedOnlyByHandler ==
  config.check_server_key =>
    \A i \in DOMAIN decisions :
      decisions[i].res = "accept" =>
        /\ decisions[i].invoked
        /\ (decisions[i].ret = "true" \/ decisions[i].resolved = "true")
        /\ \E j \in DOMAIN log : log[j] = [kind |-> "check", key |-> decisions[i].key]

\* The bridge holds a handler while the ClientHandle exists with the slot set.
HoldsCheckHandler == self.alive /\ self.check_server_key
HoldsBannerHandler == self.alive /\ self.auth_banner

\* C17: once a host-key decision has been obtained (accept, reject, or the error
\* of a failed call or failed deferred result), the bridge does not hold the
\* host-key handler; it is already released while a deferred result is awaited.
C17_HandlerReleased ==
  (Len(decisions) > 0 \/ hkPc = "promise") => ~HoldsCheckHandler

C17_Witness ==
  /\ config.check_server_key
  /\ Len(decisions) = 1
  /\ decisions[1].ret = "error"
  /\ ~HoldsCheckHandler

\* C18: from the moment a host-key decision is requested the bridge does not hold
\* the banner handler, whether or not a banner came before; a banner delivered
\* after that invokes nothing and changes neither the bridge nor the Session.
DecisionRequested == Len(decisions) > 0 \/ hkPc # "idle"

BannerDelivered ==
  /\ nEvents' = nEvents + 1
  /\ hkPc' = "idle"
  /\ decisions' = decisions

C18_BannerReleasedAtRequest ==
  /\ [](DecisionRequested => ~HoldsBannerHandler)
  /\ [][(DecisionRequested /\ BannerDelivered) =>
          /\ UNCHANGED bridgeVars
          /\ UNCHANGED sessionVars
          /\ UNCHANGED <<connectPc, tstate>>]_vars

C18_Witness ==
  /\ config.auth_banner
  /\ Invocations("banner") = 0
  /\ Len(decisions) = 1
  /\ nEvents = MaxEvents
  /\ hkPc = "idle"

\* C19: connect attempts the agent connection before it opens the transport: when
\* the agent connection fails, connect has returned an error, the transport was
\* never opened and no handler was invoked; a Session exists only if the agent
\* connection succeeded and the handshake ended with an accepted host key.
C19_AgentFirst ==
  /\ agent = "err" =>
       /\ connectPc = "err"
       /\ tstate = "none"
       /\ nEvents = 0
       /\ log = <<>>
       /\ decisions = <<>>
  /\ tstate # "none" => agent = "ok"
  /\ connectPc = "ok" => (agent = "ok" /\ Len(decisions) > 0 /\ decisions[1].res = "accept")

C19_Witness ==
  /\ agent = "err"
  /\ connectPc = "err"
  /\ config.check_server_key
  /\ config.auth_banner

\* The step in which exec returns from its drain loop, and a step of the loop
\* that takes a message from the channel.
ExecReturns == opPc = "draining" /\ opPc' # "draining"
MessageTaken == opPc = "draining" /\ \E msg \in Msgs : delivered' = Append(delivered, msg)

\* C20: exec opens at most one channel per call and exactly one when opening
\* succeeds; an error is returned only without a drain; the drain is left only by
\* the end of the message stream, with no message taken in that step, and a step
\* that takes a message (an exit status included) stays in the drain; if the
\* stream eventually ends, a draining exec eventually returns.
C20_ExecReturnsAtEndOfStream ==
  /\ [](lastCall.op = "exec" =>
          /\ lastCall.channels \in {0, 1}
          /\ lastCall.kind \in {"ok", "pending"} => lastCall.channels = 1
          /\ lastCall.kind = "pending" <=> opPc = "draining")
  /\ [][ExecReturns =>
          /\ lastCall'.kind = "ok"
          /\ lastCall'.msgs = delivered
          /\ lastCall'.channels = lastCall.channels]_vars
  /\ [][MessageTaken => (opPc' = "draining" /\ lastCall' = lastCall)]_vars
  /\ (opPc = "draining" ~> opPc = "idle")

C20_Witness ==
  /\ lastCall.op = "exec"
  /\ lastCall.kind = "ok"
  /\ lastCall.channels = 1
  /\ Len(lastCall.msgs) >= 2
  /\ lastCall.msgs[1].type = "ExitStatus"
  /\ opPc = "idle"
====
